---------------------------- MODULE Spec2Model ----------------------------
(***************************************************************************)
(* Model of inkdrop-encrypt's React Native crypto adapter                  *)
(* (src/src/crypto-rn.js): the module-level key cache keyBase64Memo, the   *)
(* four public operations of CryptoBaseRN (deriveKey, calcMD5Hash,         *)
(* encrypt, decrypt) and the Buffer conversions they perform.              *)
(*                                                                         *)
(* Text is a sequence of code points, a Buffer a sequence of bytes.        *)
(* A JavaScript value is a record tagged by t:                             *)
(*   "str" text, "buf" Buffer, "num" number, "undef", "null",              *)
(*   "fn" a value inherited from Object.prototype, "obj" an object with    *)
(*   the fields content, iv and tag.                                       *)
(* An absent option is the string "absent".                                *)
(***************************************************************************)
EXTENDS Integers, Sequences, FiniteSets, TLC

(***************************************************************************)
(* Bounds of the model.                                                    *)
(***************************************************************************)
\* number of calls that can be suspended at a provider at the same time
MaxCalls == 2
\* number of CryptoBaseRN instances sharing the module-level cache
MaxInstances == 2
\* cap of the instrumented conversion counter, per key
MaxConversions == 3
\* longest plaintext, in bytes, of the encoding specification
MaxLen == 2

(***************************************************************************)
(* Sequence helpers.                                                       *)
(***************************************************************************)
Drop(s, n) == IF n >= Len(s) THEN <<>> ELSE SubSeq(s, n + 1, Len(s))

Take(s, n) == IF n >= Len(s) THEN s ELSE SubSeq(s, 1, n)

RECURSIVE SeqsUpTo(_, _)
\* every sequence over alphabet S of length at most n
SeqsUpTo(S, n) ==
  IF n = 0 THEN {<<>>}
  ELSE LET shorter == SeqsUpTo(S, n - 1)
       IN shorter \cup {Append(s, x) : s \in shorter, x \in S}

(***************************************************************************)
(* JavaScript values.                                                      *)
(***************************************************************************)
Str(s) == [t |-> "str", v |-> s]

Buf(b) == [t |-> "buf", v |-> b]

Num(n) == [t |-> "num", v |-> <<n>>]

Undefined == [t |-> "undef", v |-> <<>>]

Null == [t |-> "null", v |-> <<>>]

\* a property value found on Object.prototype under the given name
Inherited(name) == [t |-> "fn", v |-> name]

Obj(content, iv, tag) == [t |-> "obj", content |-> content, iv |-> iv, tag |-> tag]

\* typeof x === 'string'
IsString(x) == x.t = "str"

\* x instanceof Buffer
IsBuffer(x) == x.t = "buf"

\* typeof x === 'object': null, Buffers and plain objects
TypeofObject(x) == x.t \in {"obj", "buf", "null"}

\* JavaScript truthiness of a looked-up property value
Truthy(x) ==
  CASE x.t \in {"undef", "null"} -> FALSE
    [] x.t = "str" -> x.v # <<>>
    [] x.t = "num" -> x.v # <<0>>
    [] OTHER -> TRUE

(***************************************************************************)
(* Buffer conversions.                                                     *)
(***************************************************************************)
\* the replacement character U+FFFD
Replacement == 65533

IsSurrogate(cp) == cp >= 55296 /\ cp <= 57343

\* UTF-8 bytes of one code point; a lone surrogate encodes as U+FFFD
Utf8OfCodePoint(c) ==
  LET cp == IF IsSurrogate(c) THEN Replacement ELSE c
  IN CASE cp < 128 -> <<cp>>
       [] cp >= 128 /\ cp < 2048 -> <<192 + (cp \div 64), 128 + (cp % 64)>>
       [] cp >= 2048 /\ cp < 65536 ->
            <<224 + (cp \div 4096), 128 + ((cp \div 64) % 64), 128 + (cp % 64)>>
       [] OTHER ->
            <<240 + (cp \div 262144), 128 + ((cp \div 4096) % 64),
              128 + ((cp \div 64) % 64), 128 + (cp % 64)>>

RECURSIVE Utf8Encode(_)
\* Buffer.from(text, 'utf8')
Utf8Encode(s) ==
  IF s = <<>> THEN <<>> ELSE Utf8OfCodePoint(Head(s)) \o Utf8Encode(Tail(s))

IsCont(b) == b >= 128 /\ b <= 191

\* range of the second byte after lead byte b (well-formed UTF-8)
SecondLo(b) == IF b = 224 THEN 160 ELSE IF b = 240 THEN 144 ELSE 128

SecondHi(b) == IF b = 237 THEN 159 ELSE IF b = 244 THEN 143 ELSE 191

\* number of bytes the sequence led by b needs; 0 for a byte that leads nothing
Utf8Need(b) ==
  CASE b < 128 -> 1
    [] b >= 194 /\ b <= 223 -> 2
    [] b >= 224 /\ b <= 239 -> 3
    [] b >= 240 /\ b <= 244 -> 4
    [] OTHER -> 0

\* length of the longest well-formed prefix of the sequence starting bs
Utf8Good(bs) ==
  LET need == Utf8Need(bs[1])
  IN IF need <= 1 THEN 1
     ELSE IF Len(bs) < 2 \/ bs[2] < SecondLo(bs[1]) \/ bs[2] > SecondHi(bs[1]) THEN 1
     ELSE IF need = 2 THEN 2
     ELSE IF Len(bs) < 3 \/ ~IsCont(bs[3]) THEN 2
     ELSE IF need = 3 THEN 3
     ELSE IF Len(bs) < 4 \/ ~IsCont(bs[4]) THEN 3
     ELSE 4

Utf8CodePoint(bs, n) ==
  CASE n = 1 -> bs[1]
    [] n = 2 -> (bs[1] - 192) * 64 + (bs[2] - 128)
    [] n = 3 -> (bs[1] - 224) * 4096 + (bs[2] - 128) * 64 + (bs[3] - 128)
    [] OTHER -> (bs[1] - 240) * 262144 + (bs[2] - 128) * 4096
                  + (bs[3] - 128) * 64 + (bs[4] - 128)

RECURSIVE Utf8Decode(_)
\* buf.toString('utf8'): every ill-formed subsequence becomes U+FFFD
Utf8Decode(bs) ==
  IF bs = <<>> THEN <<>>
  ELSE LET need == Utf8Need(bs[1])
           good == Utf8Good(bs)
       IN IF need # 0 /\ good = need
          THEN <<Utf8CodePoint(bs, need)>> \o Utf8Decode(Drop(bs, need))
          ELSE <<Replacement>> \o Utf8Decode(Drop(bs, good))

\* buf.toString('binary'): one code point per byte
Latin1Decode(bs) == bs

\* Buffer.from(text, 'binary'): the low byte of every code unit
Latin1Encode(s) == [i \in 1..Len(s) |-> s[i] % 256]

HexDigit(n) == IF n < 10 THEN 48 + n ELSE 97 + (n - 10)

\* value of a hex digit, -1 for any other character
HexVal(c) ==
  CASE c >= 48 /\ c <= 57 -> c - 48
    [] c >= 97 /\ c <= 102 -> c - 87
    [] c >= 65 /\ c <= 70 -> c - 55
    [] OTHER -> -1

RECURSIVE HexEncode(_)
\* buf.toString('hex')
HexEncode(bs) ==
  IF bs = <<>> THEN <<>>
  ELSE <<HexDigit(bs[1] \div 16), HexDigit(bs[1] % 16)>> \o HexEncode(Tail(bs))

RECURSIVE HexDecode(_)
\* Buffer.from(text, 'hex'): whole pairs, up to the first pair that is not hex
HexDecode(s) ==
  IF Len(s) < 2 \/ HexVal(s[1]) < 0 \/ HexVal(s[2]) < 0 THEN <<>>
  ELSE <<HexVal(s[1]) * 16 + HexVal(s[2])>> \o HexDecode(Drop(s, 2))

B64Char(n) ==
  CASE n < 26 -> 65 + n
    [] n >= 26 /\ n < 52 -> 97 + (n - 26)
    [] n >= 52 /\ n < 62 -> 48 + (n - 52)
    [] n = 62 -> 43
    [] OTHER -> 47

\* the padding character '='
B64Pad == 61

\* value of a base64 character (either alphabet), -1 for any other character
B64Val(c) ==
  CASE c >= 65 /\ c <= 90 -> c - 65
    [] c >= 97 /\ c <= 122 -> c - 71
    [] c >= 48 /\ c <= 57 -> c + 4
    [] c = 43 \/ c = 45 -> 62
    [] c = 47 \/ c = 95 -> 63
    [] OTHER -> -1

RECURSIVE Base64Encode(_)
\* buf.toString('base64')
Base64Encode(bs) ==
  CASE Len(bs) = 0 -> <<>>
    [] Len(bs) = 1 ->
         <<B64Char(bs[1] \div 4), B64Char((bs[1] % 4) * 16), B64Pad, B64Pad>>
    [] Len(bs) = 2 ->
         <<B64Char(bs[1] \div 4), B64Char((bs[1] % 4) * 16 + (bs[2] \div 16)),
           B64Char((bs[2] % 16) * 4), B64Pad>>
    [] OTHER ->
         <<B64Char(bs[1] \div 4), B64Char((bs[1] % 4) * 16 + (bs[2] \div 16)),
           B64Char((bs[2] % 16) * 4 + (bs[3] \div 64)), B64Char(bs[3] % 64)>>
           \o Base64Encode(Drop(bs, 3))

RECURSIVE B64Symbols(_)
\* the base64 digits of a text: other characters are skipped, '=' ends the data
B64Symbols(s) ==
  IF s = <<>> \/ s[1] = B64Pad THEN <<>>
  ELSE IF B64Val(s[1]) < 0 THEN B64Symbols(Tail(s))
  ELSE <<B64Val(s[1])>> \o B64Symbols(Tail(s))

RECURSIVE B64Bytes(_)
B64Bytes(d) ==
  CASE Len(d) < 2 -> <<>>
    [] Len(d) = 2 -> <<d[1] * 4 + (d[2] \div 16)>>
    [] Len(d) = 3 -> <<d[1] * 4 + (d[2] \div 16), (d[2] % 16) * 16 + (d[3] \div 4)>>
    [] OTHER ->
         <<d[1] * 4 + (d[2] \div 16), (d[2] % 16) * 16 + (d[3] \div 4),
           (d[3] % 4) * 64 + d[4]>> \o B64Bytes(Drop(d, 4))

\* Buffer.from(text, 'base64')
Base64Decode(s) == B64Bytes(B64Symbols(s))

\* Buffer.from(text, encoding)
BufferFrom(s, encoding) ==
  CASE encoding = "base64" -> Base64Decode(s)
    [] encoding = "hex" -> HexDecode(s)
    [] encoding = "binary" -> Latin1Encode(s)
    [] OTHER -> Utf8Encode(s)

\* buf.toString(encoding)
BufferToString(bs, encoding) ==
  CASE encoding = "base64" -> Base64Encode(bs)
    [] encoding = "hex" -> HexEncode(bs)
    [] encoding = "binary" -> Latin1Decode(bs)
    [] OTHER -> Utf8Decode(bs)

(***************************************************************************)
(* The providers handed to the constructor (AesGcmCryptoModule, MD5Module, *)
(* PBKDF2Module).  Their implementations are outside the repository; they  *)
(* are modelled as deterministic functions that honour the declared        *)
(* contract: decrypt inverts encrypt under the same key, iv and tag and    *)
(* rejects anything else, the digest has 16 bytes, the derivation has the  *)
(* requested length.                                                       *)
(***************************************************************************)
RECURSIVE Mix(_, _)
Mix(bs, h) == IF bs = <<>> THEN h ELSE Mix(Tail(bs), (h * 31 + bs[1] + 1) % 251)

Resolved(value) == [status |-> "resolved", value |-> value]

Rejected == [status |-> "rejected", value |-> Undefined]

NoReply == [status |-> "none", value |-> Undefined]

\* a text that is the base64 encoding of some bytes, as toString('base64') writes it
IsCanonicalBase64(s) == Base64Encode(Base64Decode(s)) = s

KeyStream(keyBytes, ivBytes, i) == (Mix(keyBytes \o <<255>> \o ivBytes, 3) + 17 * i) % 256

GcmSeal(keyBytes, ivBytes, plain) ==
  [i \in 1..Len(plain) |-> (plain[i] + KeyStream(keyBytes, ivBytes, i)) % 256]

GcmOpen(keyBytes, ivBytes, cipher) ==
  [i \in 1..Len(cipher) |-> (cipher[i] + 256 - KeyStream(keyBytes, ivBytes, i)) % 256]

GcmTag(keyBytes, ivBytes, cipher) ==
  <<Mix(keyBytes \o <<255>> \o ivBytes \o <<255>> \o cipher, 7),
    Mix(cipher \o <<255>> \o ivBytes \o <<255>> \o keyBytes, 11)>>

\* crypto.encrypt(plainText, inBinary, base64Key), drawing the initialization vector iv
CryptoEncrypt(plainText, inBinary, base64Key, iv) ==
  IF ~IsString(plainText) \/ ~IsString(base64Key) THEN Rejected
  ELSE IF inBinary /\ ~IsCanonicalBase64(plainText.v) THEN Rejected
  ELSE LET keyBytes == Base64Decode(base64Key.v)
           plain == IF inBinary THEN Base64Decode(plainText.v) ELSE Utf8Encode(plainText.v)
           cipher == GcmSeal(keyBytes, iv, plain)
       IN Resolved([iv |-> Str(Base64Encode(iv)),
                    tag |-> Str(Base64Encode(GcmTag(keyBytes, iv, cipher))),
                    content |-> Str(Base64Encode(cipher))])

\* crypto.decrypt(base64Ciphertext, base64Key, iv, tag, isBinary)
CryptoDecrypt(base64Ciphertext, base64Key, iv, tag, isBinary) ==
  IF ~IsString(base64Ciphertext) \/ ~IsString(base64Key) \/ ~IsString(iv) \/ ~IsString(tag)
  THEN Rejected
  ELSE LET keyBytes == Base64Decode(base64Key.v)
           ivBytes == Base64Decode(iv.v)
           cipher == Base64Decode(base64Ciphertext.v)
           plain == GcmOpen(keyBytes, ivBytes, cipher)
       IN IF Base64Decode(tag.v) # GcmTag(keyBytes, ivBytes, cipher) THEN Rejected
          ELSE Resolved(Str(IF isBinary THEN Base64Encode(plain) ELSE Utf8Decode(plain)))

\* md5.binaryMd5(data): the hex digest, 16 bytes, of a binary string
BinaryMd5(data) ==
  LET seed == Mix(data, 5)
  IN Str(HexEncode([i \in 1..16 |-> (seed * i + Len(data) + 3 * i * i) % 256]))

\* pbkdf2.hash(password, salt, iterations, keyLength, 'SHA512')
Pbkdf2Hash(password, salt, iterations, keyLength) ==
  LET seed == Mix(Utf8Encode(password) \o <<255>> \o salt, iterations)
  IN Buf([i \in 1..keyLength |-> (seed * i + iterations + 5 * i * i) % 256])

(***************************************************************************)
(* State.                                                                  *)
(*   keyBase64Memo  the own properties of the module-level cache object    *)
(*   conversions    per key text, how often Buffer.from(key, 'utf8')       *)
(*                  .toString('base64') was evaluated (instrumentation)    *)
(*   encoded        the key texts handed to encodeKeyToBase64 so far       *)
(*   calls          the calls in progress: idle, suspended at a provider   *)
(*                  (await) or finished and not yet consumed (done)        *)
(***************************************************************************)
VARIABLES keyBase64Memo, conversions, encoded, calls

vars == <<keyBase64Memo, conversions, encoded, calls>>

Calls == 1..MaxCalls

Instances == 1..MaxInstances

\* "k", "", "constructor", "__proto__" and a key outside ASCII
KeyK == <<107>>

KeyEmpty == <<>>

KeyConstructor == <<99, 111, 110, 115, 116, 114, 117, 99, 116, 111, 114>>

KeyProto == <<95, 95, 112, 114, 111, 116, 111, 95, 95>>

KeyEAcute == <<233>>

TextKeys == {KeyK, KeyEmpty, KeyConstructor, KeyProto, KeyEAcute}

\* the property names every object literal inherits, among the key texts
ObjectPrototypeNames == {KeyConstructor, KeyProto}

\* const keyBase64Memo = {}
EmptyMemo == [k \in {} |-> Undefined]

\* keyBase64Memo[key]: an own property, else the inherited one, else undefined
MemoGet(memo, key) ==
  IF key \in DOMAIN memo THEN memo[key]
  ELSE IF key \in ObjectPrototypeNames THEN Inherited(key)
  ELSE Undefined

\* keyBase64Memo[key] = value: '__proto__' goes to the inherited setter,
\* which creates no own property
MemoSet(memo, key, value) ==
  IF key = KeyProto THEN memo
  ELSE [k \in DOMAIN memo \cup {key} |-> IF k = key THEN value ELSE memo[k]]

\* encodeKeyToBase64(key): the value returned, the cache afterwards and
\* whether the conversion was evaluated
encodeKeyToBase64(memo, key) ==
  LET cached == MemoGet(memo, key)
      base64 == IF Truthy(cached) THEN cached
                ELSE Str(Base64Encode(Utf8Encode(key)))
  IN [value |-> base64,
      memo |-> MemoSet(memo, key, base64),
      converted |-> ~Truthy(cached)]

algorithm == "aes-256-gcm"

\* the characters deriveKey keeps of the base64 text
DerivedKeyChars == 32

\* the key length asked of the KDF provider, 256 / 8 bytes
KeyLengthBytes == 256 \div 8

\* an option that was not given
Absent == "absent"

\* typeof option === 'string'
Given(option) == option # Absent

NoRequest == [fn |-> "none"]

NoResult == [status |-> "none", kind |-> "none", value |-> Undefined]

Returned(value) == [status |-> "returned", kind |-> "none", value |-> value]

Thrown(kind) == [status |-> "thrown", kind |-> kind, value |-> Undefined]

\* outcome of the synchronous part of a call: it throws, or it hands a
\* request to a provider
Throws(memo, keys, converted, kind) ==
  [memo |-> memo, keys |-> keys, converted |-> converted,
   sent |-> NoRequest, result |-> Thrown(kind)]

Sends(memo, keys, converted, request) ==
  [memo |-> memo, keys |-> keys, converted |-> converted,
   sent |-> request, result |-> NoResult]

\* data.content, data.iv, data.tag of a value that passed typeof data === 'object'
Field(data, name) ==
  IF data.t # "obj" THEN Undefined
  ELSE CASE name = "content" -> data.content
         [] name = "iv" -> data.iv
         [] OTHER -> data.tag

\* encrypt, up to the await of crypto.encrypt
encryptPrefix(memo, key, data, opts) ==
  IF ~IsString(key) THEN Throws(memo, {}, {}, "InvalidKeyError")
  ELSE LET enc == encodeKeyToBase64(memo, key.v)
           isBinary == \/ opts.inputEncoding = "binary"
                       \/ opts.inputEncoding = "base64"
                       \/ IsBuffer(data)
           plainData == IF IsBuffer(data) THEN Str(Base64Encode(data.v)) ELSE data
       IN Sends(enc.memo, {key.v}, IF enc.converted THEN {key.v} ELSE {},
                [fn |-> "crypto.encrypt", plainText |-> plainData,
                 inBinary |-> isBinary, base64Key |-> enc.value])

\* encrypt writing a 'binary' ciphertext as a binary string, not as a Buffer
encryptResult_BinaryAsText(opts, sealed) ==
  LET outputEncoding == opts.outputEncoding
      buf == Base64Decode(sealed.content.v)
      encrypted ==
        IF ~Given(outputEncoding) THEN Buf(buf)
        ELSE IF outputEncoding = "base64" THEN sealed.content
        ELSE IF outputEncoding = "" THEN Buf(buf)
        ELSE Str(BufferToString(buf, outputEncoding))
  IN [t |-> "obj", algorithm |-> algorithm, content |-> encrypted,
      iv |-> sealed.iv, tag |-> sealed.tag]

\* encrypt, from the provider's answer to the returned EncryptedData
encryptResult(opts, sealed) ==
  LET outputEncoding == opts.outputEncoding
      buf == Base64Decode(sealed.content.v)
      encrypted ==
        IF ~Given(outputEncoding) THEN Buf(buf)
        ELSE IF outputEncoding = "base64" THEN sealed.content
        ELSE IF outputEncoding = "" \/ outputEncoding = "binary" THEN Buf(buf)
        ELSE Str(BufferToString(buf, outputEncoding))
  IN [t |-> "obj", algorithm |-> algorithm, content |-> encrypted,
      iv |-> sealed.iv, tag |-> sealed.tag]

\* decrypt, from the encoding of the key to the await of crypto.decrypt
decryptRequest(memo, key, data, opts) ==
  LET enc == encodeKeyToBase64(memo, key.v)
      conv == IF enc.converted THEN {key.v} ELSE {}
      outputEncoding == opts.outputEncoding
      inputEncoding == opts.inputEncoding
      isBinary == \/ ~Given(outputEncoding) \/ outputEncoding = ""
                  \/ outputEncoding = "binary"
                  \/ outputEncoding = "base64"
      content == Field(data, "content")
      request(ciphertext) ==
        [fn |-> "crypto.decrypt", base64Ciphertext |-> ciphertext,
         base64Key |-> enc.value, iv |-> Field(data, "iv"),
         tag |-> Field(data, "tag"), isBinary |-> isBinary]
  IN IF data = Null
     THEN \* reading data.content of null
          Throws(enc.memo, {key.v}, conv, "TypeError")
     ELSE IF IsBuffer(content)
     THEN Sends(enc.memo, {key.v}, conv, request(Str(Base64Encode(content.v))))
     ELSE IF inputEncoding = "base64"
     THEN Sends(enc.memo, {key.v}, conv, request(content))
     ELSE IF Given(inputEncoding)
     THEN IF IsString(content)
          THEN Sends(enc.memo, {key.v}, conv,
                     request(Str(Base64Encode(BufferFrom(content.v, inputEncoding)))))
          ELSE \* Buffer.from of a value that is no string
               Throws(enc.memo, {key.v}, conv, "TypeError")
     ELSE Throws(enc.memo, {key.v}, conv, "InvalidDataError")

\* decrypt with the two checks in the other order
decryptPrefix_DataFirst(memo, key, data, opts) ==
  IF ~TypeofObject(data) THEN Throws(memo, {}, {}, "InvalidDataError")
  ELSE IF ~IsString(key) THEN Throws(memo, {}, {}, "InvalidKeyError")
  ELSE decryptRequest(memo, key, data, opts)

\* decrypt encoding the key before it looks at the type of data
decryptPrefix_EncodeFirst(memo, key, data, opts) ==
  IF ~IsString(key) THEN Throws(memo, {}, {}, "InvalidKeyError")
  ELSE IF ~TypeofObject(data)
  THEN LET enc == encodeKeyToBase64(memo, key.v)
       IN Throws(enc.memo, {key.v}, IF enc.converted THEN {key.v} ELSE {},
                 "InvalidDataError")
  ELSE decryptRequest(memo, key, data, opts)

\* decrypt, up to the await of crypto.decrypt
decryptPrefix(memo, key, data, opts) ==
  IF ~IsString(key) THEN Throws(memo, {}, {}, "InvalidKeyError")
  ELSE IF ~TypeofObject(data) THEN Throws(memo, {}, {}, "InvalidDataError")
  ELSE decryptRequest(memo, key, data, opts)

\* decrypt never turning the plaintext into a Buffer
decryptResult_NoBuffer(opts, unsealed) == unsealed

\* decrypt, from the provider's answer to the returned plaintext
decryptResult(opts, unsealed) ==
  IF opts.outputEncoding = "binary" THEN Buf(Base64Decode(unsealed.v)) ELSE unsealed

\* deriveKey, up to the await of pbkdf2.hash
deriveKeyPrefix(password, salt, iter) ==
  LET bufSalt == IF IsBuffer(salt) THEN salt.v ELSE HexDecode(salt.v)
  IN [fn |-> "pbkdf2.hash", password |-> password, salt |-> Buf(bufSalt),
      iterations |-> iter, keyLength |-> KeyLengthBytes, algorithm |-> "SHA512"]

\* deriveKey returning the whole base64 text
deriveKeyResult_Untruncated(derivation) == Str(Base64Encode(derivation.v))

\* deriveKey, from the derivation to the returned key
deriveKeyResult(derivation) ==
  Str(Take(Base64Encode(derivation.v), DerivedKeyChars))

\* calcMD5Hash: the binary string handed to md5.binaryMd5
calcMD5HashData(content) ==
  Str(IF IsBuffer(content) THEN Latin1Decode(content.v)
      ELSE Latin1Decode(Base64Decode(content.v)))

\* calcMD5Hash reading the hex digest as UTF-8 text
calcMD5HashResult_Utf8(hexHash, outputEncoding) ==
  IF outputEncoding = "hex" THEN hexHash
  ELSE Str(Base64Encode(Utf8Encode(hexHash.v)))

\* calcMD5Hash: the value returned for the provider's hex digest
calcMD5HashResult(hexHash, outputEncoding) ==
  IF outputEncoding = "hex" THEN hexHash
  ELSE Str(Base64Encode(HexDecode(hexHash.v)))

(***************************************************************************)
(* Calls.                                                                  *)
(***************************************************************************)
NoArgs == [none |-> TRUE]

NoOrigin == [none |-> TRUE]

IdleCall ==
  [op |-> "none", pc |-> "idle", inst |-> 0, args |-> NoArgs, origin |-> NoOrigin,
   cacheChanged |-> FALSE, sent |-> NoRequest, reply |-> NoReply, result |-> NoResult]

\* the instrumented counter after the conversions of one call
Counted(converted) ==
  [k \in DOMAIN conversions |->
     IF k \in converted THEN conversions[k] + 1 ELSE conversions[k]]

\* the counter is capped: a key whose conversions reached the cap is not encoded again
MayEncode(key) == IsString(key) => conversions[key.v] < MaxConversions

\* the synchronous part of an encrypt or decrypt call, with outcome r
Enter(c, op, inst, args, origin, r) ==
  /\ keyBase64Memo' = r.memo
  /\ conversions' = Counted(r.converted)
  /\ encoded' = encoded \cup r.keys
  /\ calls' = [calls EXCEPT ![c] =
       [op |-> op, pc |-> IF r.sent = NoRequest THEN "done" ELSE "await",
        inst |-> inst, args |-> args, origin |-> origin,
        cacheChanged |-> r.memo # keyBase64Memo,
        sent |-> r.sent, reply |-> NoReply, result |-> r.result]]

\* the continuation of a suspended call: the cache is not touched
Finish(c, reply, result) ==
  /\ calls' = [calls EXCEPT ![c].pc = "done", ![c].reply = reply, ![c].result = result]
  /\ UNCHANGED <<keyBase64Memo, conversions, encoded>>

\* instance inst's encrypt(key, data, opts) is called
encrypt(c, inst, key, data, opts) ==
  /\ calls[c].pc = "idle"
  /\ MayEncode(key)
  /\ Enter(c, "encrypt", inst, [key |-> key, data |-> data, opts |-> opts], NoOrigin,
           encryptPrefix(keyBase64Memo, key, data, opts))

\* crypto.encrypt settles with initialization vector iv and encrypt continues
encryptResumes(c, iv) ==
  /\ calls[c].pc = "await"
  /\ calls[c].op = "encrypt"
  /\ LET sent == calls[c].sent
         reply == CryptoEncrypt(sent.plainText, sent.inBinary, sent.base64Key, iv)
     IN Finish(c, reply,
               IF reply.status = "rejected" THEN Thrown("ProviderError")
               ELSE Returned(encryptResult(calls[c].args.opts, reply.value)))

\* instance inst's decrypt(key, data, opts) is called
decrypt(c, inst, key, data, opts) ==
  /\ calls[c].pc = "idle"
  /\ MayEncode(key)
  /\ Enter(c, "decrypt", inst, [key |-> key, data |-> data, opts |-> opts], NoOrigin,
           decryptPrefix(keyBase64Memo, key, data, opts))

\* the caller of a finished encrypt hands the EncryptedData it got to decrypt
decryptEncrypted(c, inst, key, opts) ==
  /\ calls[c].pc = "done"
  /\ calls[c].op = "encrypt"
  /\ calls[c].result.status = "returned"
  /\ MayEncode(key)
  /\ LET data == calls[c].result.value
     IN Enter(c, "decrypt", inst, [key |-> key, data |-> data, opts |-> opts],
              calls[c].args, decryptPrefix(keyBase64Memo, key, data, opts))

\* crypto.decrypt settles and decrypt continues
decryptResumes(c) ==
  /\ calls[c].pc = "await"
  /\ calls[c].op = "decrypt"
  /\ LET sent == calls[c].sent
         reply == CryptoDecrypt(sent.base64Ciphertext, sent.base64Key,
                                sent.iv, sent.tag, sent.isBinary)
     IN Finish(c, reply,
               IF reply.status = "rejected" THEN Thrown("ProviderError")
               ELSE Returned(decryptResult(calls[c].args.opts, reply.value)))

\* instance inst's deriveKey(password, salt, iter) is called
deriveKey(c, inst, password, salt, iter) ==
  /\ calls[c].pc = "idle"
  /\ UNCHANGED <<keyBase64Memo, conversions, encoded>>
  /\ calls' = [calls EXCEPT ![c] =
       [op |-> "deriveKey", pc |-> "await", inst |-> inst,
        args |-> [password |-> password, salt |-> salt, iter |-> iter],
        origin |-> NoOrigin, cacheChanged |-> keyBase64Memo' # keyBase64Memo,
        sent |-> deriveKeyPrefix(password, salt, iter),
        reply |-> NoReply, result |-> NoResult]]

\* pbkdf2.hash settles and deriveKey continues
deriveKeyResumes(c) ==
  /\ calls[c].pc = "await"
  /\ calls[c].op = "deriveKey"
  /\ LET sent == calls[c].sent
         derivation == Pbkdf2Hash(sent.password, sent.salt.v, sent.iterations,
                                  sent.keyLength)
     IN Finish(c, Resolved(derivation), Returned(deriveKeyResult(derivation)))

\* instance inst's calcMD5Hash(content, outputEncoding) is called and returns
calcMD5Hash(c, inst, content, outputEncoding) ==
  /\ calls[c].pc = "idle"
  /\ UNCHANGED <<keyBase64Memo, conversions, encoded>>
  /\ LET data == calcMD5HashData(content)
         hexHash == BinaryMd5(data.v)
     IN calls' = [calls EXCEPT ![c] =
          [op |-> "calcMD5Hash", pc |-> "done", inst |-> inst,
           args |-> [content |-> content, outputEncoding |-> outputEncoding],
           origin |-> NoOrigin, cacheChanged |-> keyBase64Memo' # keyBase64Memo,
           sent |-> [fn |-> "md5.binaryMd5", data |-> data],
           reply |-> Resolved(hexHash),
           result |-> Returned(calcMD5HashResult(hexHash, outputEncoding))]]

\* the caller has taken the outcome of a finished call
Return(c) ==
  /\ calls[c].pc = "done"
  /\ calls' = [calls EXCEPT ![c] = IdleCall]
  /\ UNCHANGED <<keyBase64Memo, conversions, encoded>>

Init ==
  /\ keyBase64Memo = EmptyMemo
  /\ conversions = [k \in TextKeys |-> 0]
  /\ encoded = {}
  /\ calls = [c \in Calls |-> IdleCall]

(***************************************************************************)
(* Inputs.                                                                 *)
(***************************************************************************)
Opts(inputEncoding, outputEncoding) ==
  [inputEncoding |-> inputEncoding, outputEncoding |-> outputEncoding]

DefaultOpts == Opts(Absent, Absent)

\* PlainDataEncodingType and EncryptedDataEncodingType, or no option
PlainEncodings == {Absent, "utf8", "binary", "base64"}

EncryptedEncodings == {Absent, "base64", "hex", "binary", "utf8"}

\* initialization vectors the cipher provider may draw
IVs == {<<1, 2>>, <<200, 7>>}

TextA == Str(<<65>>)

\* an EncryptedData no encrypt call produced
ForgedData(content) == Obj(content, Str(Base64Encode(<<1, 2>>)), Str(Base64Encode(<<9, 9>>)))

(***************************************************************************)
(* Spec: calls of every operation, on several instances, suspended at      *)
(* their providers concurrently.                                           *)
(***************************************************************************)
Keys == {Str(KeyK), Str(KeyEmpty), Str(KeyConstructor), Str(KeyProto), Num(123)}

Next ==
  \E c \in Calls :
    \/ \E inst \in Instances, key \in Keys :
         \/ encrypt(c, inst, key, TextA, DefaultOpts)
         \/ \E content \in {Str(<<81, 81, 61, 61>>), Buf(<<65>>)} :
              decrypt(c, inst, key, ForgedData(content), DefaultOpts)
         \/ decryptEncrypted(c, inst, key, Opts(Absent, "utf8"))
    \/ \E iv \in IVs : encryptResumes(c, iv)
    \/ decryptResumes(c)
    \/ \E inst \in Instances : deriveKey(c, inst, <<112>>, Buf(<<1>>), 1)
    \/ deriveKeyResumes(c)
    \/ \E inst \in Instances, outputEncoding \in {"hex", "base64"} :
         calcMD5Hash(c, inst, Buf(<<65>>), outputEncoding)
    \/ Return(c)

Spec == Init /\ [][Next]_vars

(***************************************************************************)
(* SpecValidation: one call at a time, with arguments of every kind.       *)
(***************************************************************************)
AnyKeys ==
  {Str(KeyK), Str(KeyEmpty), Str(KeyConstructor), Num(123), Undefined, Null, Buf(KeyK)}

AnyData ==
  {TextA, Num(5), Undefined, Null, Buf(<<65>>),
   ForgedData(Str(<<81, 81, 61, 61>>)), ForgedData(Buf(<<65>>)), ForgedData(Undefined)}

NextValidation ==
  \/ \E key \in AnyKeys, inputEncoding \in PlainEncodings,
        outputEncoding \in EncryptedEncodings :
       encrypt(1, 1, key, TextA, Opts(inputEncoding, outputEncoding))
  \/ \E iv \in IVs : encryptResumes(1, iv)
  \/ \E key \in AnyKeys, data \in AnyData, inputEncoding \in EncryptedEncodings,
        outputEncoding \in PlainEncodings :
       decrypt(1, 1, key, data, Opts(inputEncoding, outputEncoding))
  \/ \E key \in AnyKeys, outputEncoding \in PlainEncodings :
       decryptEncrypted(1, 1, key,
                        Opts(calls[1].args.opts.outputEncoding, outputEncoding))
  \/ decryptResumes(1)
  \/ Return(1)

SpecValidation == Init /\ [][NextValidation]_vars

(***************************************************************************)
(* SpecCodec: one call at a time, with every plaintext up to MaxLen bytes   *)
(* and every combination of encodings; decrypt is given what encrypt       *)
(* returned, under the same key.                                           *)
(***************************************************************************)
PlainBytes == SeqsUpTo({65, 255}, MaxLen)

PlainTexts == SeqsUpTo({65, 233}, MaxLen) \cup {<<55296>>}

CodecData ==
  {Buf(b) : b \in PlainBytes} \cup {Str(s) : s \in PlainTexts}
    \cup {Str(Base64Encode(b)) : b \in PlainBytes}

CodecKeys == {Str(KeyEAcute), Str(KeyConstructor)}

Passwords == {<<112>>, <<112, 233>>}

\* salts: raw bytes, hex text, hex text of odd length, text that is not hex
Salts == {Buf(<<>>), Buf(<<1, 2>>), Str(<<48, 49, 48, 50>>), Str(<<48, 49, 50>>),
          Str(<<122, 122>>)}

Iterations == {1, 1000}

NextCodec ==
  \/ \E key \in CodecKeys, data \in CodecData, inputEncoding \in PlainEncodings,
        outputEncoding \in EncryptedEncodings :
       encrypt(1, 1, key, data, Opts(inputEncoding, outputEncoding))
  \/ \E iv \in IVs : encryptResumes(1, iv)
  \/ \E inputEncoding \in EncryptedEncodings, outputEncoding \in PlainEncodings :
       decryptEncrypted(1, 1, calls[1].args.key, Opts(inputEncoding, outputEncoding))
  \/ decryptResumes(1)
  \/ \E password \in Passwords, salt \in Salts, iter \in Iterations :
       deriveKey(1, 1, password, salt, iter)
  \/ deriveKeyResumes(1)
  \/ \E content \in CodecData, outputEncoding \in {"hex", "base64"} :
       calcMD5Hash(1, 1, content, outputEncoding)
  \/ Return(1)

SpecCodec == Init /\ [][NextCodec]_vars

(***************************************************************************)
(* Properties.                                                             *)
(***************************************************************************)
Done(c) == calls[c].pc = "done"

Cipher(c) == calls[c].op \in {"encrypt", "decrypt"}

ThrewValidation(c) ==
  /\ calls[c].result.status = "thrown"
  /\ calls[c].result.kind \in {"InvalidKeyError", "InvalidDataError"}

\* the base64 encoding of the UTF-8 bytes of a key text
KeyBase64(key) == Str(Base64Encode(Utf8Encode(key)))

\* a finished decrypt of what an encrypt under the same key returned, whose
\* inputEncoding mirrors the outputEncoding of that encrypt
RoundTrip(c) ==
  /\ Done(c)
  /\ calls[c].op = "decrypt"
  /\ calls[c].origin # NoOrigin
  /\ calls[c].origin.key = calls[c].args.key
  /\ calls[c].args.opts.inputEncoding = calls[c].origin.opts.outputEncoding

\* the plaintext is in the form its inputEncoding names
PlaintextFits(data, inputEncoding) ==
  \/ IsBuffer(data)
  \/ IsString(data) /\ inputEncoding \in {Absent, "utf8"}
       /\ \A i \in 1..Len(data.v) : ~IsSurrogate(data.v[i])
  \/ IsString(data) /\ inputEncoding = "binary"
       /\ \A i \in 1..Len(data.v) : data.v[i] < 256
  \/ IsString(data) /\ inputEncoding = "base64" /\ IsCanonicalBase64(data.v)

\* C1 as claimed: decrypt(key, encrypt(key, plaintext, encOpts), decOpts)
\* returns the plaintext whenever decOpts.inputEncoding mirrors
\* encOpts.outputEncoding, for every plaintext and every combination of
\* encodings, the default options included.
C1_RoundTripAnyOptions ==
  \A c \in Calls :
    (RoundTrip(c) /\ PlaintextFits(calls[c].origin.data,
                                   calls[c].origin.opts.inputEncoding))
      => calls[c].result = Returned(calls[c].origin.data)

\* decrypt's outputEncoding names the form the plaintext was given in
OutputNamesPlaintext(data, inputEncoding, outputEncoding) ==
  \/ IsBuffer(data) /\ outputEncoding = "binary"
  \/ /\ IsString(data)
     /\ inputEncoding \in {Absent, "utf8"}
     /\ \A i \in 1..Len(data.v) : ~IsSurrogate(data.v[i])
     /\ outputEncoding = "utf8"
  \/ /\ IsString(data)
     /\ inputEncoding \in {"binary", "base64"}
     /\ IsCanonicalBase64(data.v)
     /\ outputEncoding \in {Absent, "base64"}

\* C1 as amended: the round trip returns the plaintext when the provider
\* resolves, the ciphertext encoding is absent, base64, hex or binary,
\* decrypt's inputEncoding mirrors it, and decrypt's outputEncoding names
\* the form of the plaintext: binary for raw bytes, utf8 for well-formed
\* text given as UTF-8, base64 or absent for base64 text given with
\* inputEncoding binary or base64.
C1_RoundTrip ==
  \A c \in Calls :
    (/\ RoundTrip(c)
     /\ calls[c].reply.status = "resolved"
     /\ calls[c].origin.opts.outputEncoding # "utf8"
     /\ OutputNamesPlaintext(calls[c].origin.data, calls[c].origin.opts.inputEncoding,
                             calls[c].args.opts.outputEncoding))
      => calls[c].result = Returned(calls[c].origin.data)

\* C1 witness: text of two characters, one outside ASCII, came back from a
\* hex ciphertext
C1_Witness ==
  \E c \in Calls :
    /\ RoundTrip(c)
    /\ calls[c].origin.opts.outputEncoding = "hex"
    /\ calls[c].args.opts.outputEncoding = "utf8"
    /\ calls[c].origin.data = Str(<<65, 233>>)
    /\ calls[c].result = Returned(Str(<<65, 233>>))

\* C2: a successful encrypt returns algorithm "aes-256-gcm", the provider's
\* iv and tag unchanged, and the provider's base64 ciphertext as raw bytes
\* (outputEncoding absent or binary), unchanged (base64) or decoded and
\* re-encoded as text in the requested encoding (otherwise).
C2_EncryptedData ==
  \A c \in Calls :
    (Done(c) /\ calls[c].op = "encrypt" /\ calls[c].result.status = "returned")
      => LET sealed == calls[c].reply.value
             outputEncoding == calls[c].args.opts.outputEncoding
             value == calls[c].result.value
             bytes == Base64Decode(sealed.content.v)
         IN /\ value.algorithm = "aes-256-gcm"
            /\ value.iv = sealed.iv
            /\ value.tag = sealed.tag
            /\ value.content =
                 CASE outputEncoding \in {Absent, "binary"} -> Buf(bytes)
                   [] outputEncoding = "base64" -> sealed.content
                   [] outputEncoding = "hex" -> Str(HexEncode(bytes))
                   [] outputEncoding = "utf8" -> Str(Utf8Decode(bytes))

\* C2 witness: a finished encrypt that returned its two-byte ciphertext as hex text
C2_Witness ==
  \E c \in Calls :
    /\ Done(c)
    /\ calls[c].op = "encrypt"
    /\ calls[c].result.status = "returned"
    /\ calls[c].args.opts.outputEncoding = "hex"
    /\ Len(calls[c].result.value.content.v) = 4

\* data is no object-shaped value
NotObjectShaped(data) == data.t \in {"str", "num", "undef", "null"}

\* C3 as claimed: decrypt with a text key fails with InvalidDataError for
\* every data that is not object-shaped (a string, a number, undefined, null)
\* and for every object-shaped data whose content is not raw bytes while
\* inputEncoding is unset.
C3_InvalidData ==
  \A c \in Calls :
    (/\ Done(c)
     /\ calls[c].op = "decrypt"
     /\ IsString(calls[c].args.key)
     /\ \/ NotObjectShaped(calls[c].args.data)
        \/ /\ ~IsBuffer(Field(calls[c].args.data, "content"))
           /\ calls[c].args.opts.inputEncoding = Absent)
      => calls[c].result = Thrown("InvalidDataError")

\* C4: a call that ends with a validation error never invoked the provider,
\* and a call with a key that is not text ends with InvalidKeyError whatever
\* its data and options are.
C4_FailFast ==
  \A c \in Calls :
    (Cipher(c) /\ calls[c].pc # "idle")
      => /\ ThrewValidation(c) =>
              (calls[c].sent = NoRequest /\ calls[c].reply = NoReply)
         /\ ~IsString(calls[c].args.key) =>
              (Done(c) /\ calls[c].result = Thrown("InvalidKeyError"))

\* C4 witness: a decrypt with a number for key and a string for data ended
\* with InvalidKeyError
C4_Witness ==
  \E c \in Calls :
    /\ Done(c)
    /\ calls[c].op = "decrypt"
    /\ calls[c].args.key = Num(123)
    /\ calls[c].args.data = TextA
    /\ calls[c].result = Thrown("InvalidKeyError")
    /\ calls[c].sent = NoRequest

\* C5 as claimed: for every key text, the empty one included, the conversion
\* runs once however often the key is encoded, and every encoding of the key
\* gives the same result.
C5_ConvertedOnce ==
  /\ \A k \in encoded : conversions[k] <= 1
  /\ \A c, d \in Calls :
       (/\ Cipher(c) /\ Cipher(d)
        /\ calls[c].sent # NoRequest /\ calls[d].sent # NoRequest
        /\ calls[c].args.key = calls[d].args.key)
         => calls[c].sent.base64Key = calls[d].sent.base64Key

\* C6 as claimed: the cache holds exactly one entry for each key text that
\* was encoded, each entry is the base64 encoding of the key's UTF-8 bytes,
\* and an entry once present is never removed or changed.
C6_CacheGrows ==
  /\ [](/\ DOMAIN keyBase64Memo = encoded
        /\ \A k \in DOMAIN keyBase64Memo : keyBase64Memo[k] = KeyBase64(k))
  /\ [][\A k \in DOMAIN keyBase64Memo :
          k \in DOMAIN keyBase64Memo' /\ keyBase64Memo'[k] = keyBase64Memo[k]]_vars

\* the request an encrypt or decrypt call owes the provider for its own arguments
OwnRequest(c) ==
  LET args == calls[c].args
  IN IF calls[c].op = "encrypt"
     THEN [fn |-> "crypto.encrypt",
           plainText |-> IF IsBuffer(args.data) THEN Str(Base64Encode(args.data.v))
                         ELSE args.data,
           inBinary |-> args.opts.inputEncoding \in {"binary", "base64"}
                          \/ IsBuffer(args.data),
           base64Key |-> KeyBase64(args.key.v)]
     ELSE LET content == Field(args.data, "content")
          IN [fn |-> "crypto.decrypt",
              base64Ciphertext |->
                IF IsBuffer(content) THEN Str(Base64Encode(content.v))
                ELSE IF args.opts.inputEncoding = "base64" THEN content
                ELSE Str(Base64Encode(BufferFrom(content.v, args.opts.inputEncoding))),
              base64Key |-> KeyBase64(args.key.v),
              iv |-> Field(args.data, "iv"), tag |-> Field(args.data, "tag"),
              isBinary |-> args.opts.outputEncoding \in {Absent, "binary", "base64"}]

\* the outcome an encrypt or decrypt call owes its caller for its own provider reply
OwnResult(c) ==
  IF calls[c].reply.status = "rejected" THEN Thrown("ProviderError")
  ELSE IF calls[c].op = "encrypt"
  THEN Returned(encryptResult(calls[c].args.opts, calls[c].reply.value))
  ELSE Returned(decryptResult(calls[c].args.opts, calls[c].reply.value))

\* C7 as claimed: in every interleaving, each call passes to the provider
\* the base64 encoding of its own key with its own normalized data, iv and
\* tag, and returns the result derived from its own provider reply.
C7_NoInterference ==
  \A c \in Calls :
    (Cipher(c) /\ calls[c].sent # NoRequest)
      => /\ calls[c].sent = OwnRequest(c)
         /\ Done(c) => calls[c].result = OwnResult(c)

\* the characters A-Z, a-z, 0-9, + and /
Base64Alphabet == {B64Char(n) : n \in 0..63}

\* C8: when the KDF provider resolves with 32 bytes, deriveKey returns 32
\* characters of the base64 alphabet, the first 32 of the base64 encoding of
\* the derived bytes.
C8_Truncation ==
  \A c \in Calls :
    (Done(c) /\ calls[c].op = "deriveKey" /\ Len(calls[c].reply.value.v) = 32)
      => LET key == calls[c].result.value
         IN /\ calls[c].result.status = "returned"
            /\ IsString(key)
            /\ Len(key.v) = 32
            /\ \A i \in 1..Len(key.v) : key.v[i] \in Base64Alphabet
            /\ key.v = SubSeq(Base64Encode(calls[c].reply.value.v), 1, 32)

\* C8 witness: a key was derived from a salt given as hex text
C8_Witness ==
  \E c \in Calls :
    /\ Done(c)
    /\ calls[c].op = "deriveKey"
    /\ IsString(calls[c].args.salt)
    /\ calls[c].sent.salt = Buf(<<1, 2>>)
    /\ Len(calls[c].reply.value.v) = 32
    /\ Len(calls[c].result.value.v) = 32

\* the bytes calcMD5Hash digests: raw bytes as they are, text decoded from base64
ContentBytes(content) == IF IsBuffer(content) THEN content.v ELSE Base64Decode(content.v)

\* C9: the hex result decoded from hex and the base64 result decoded from
\* base64 are the 16-byte digest the provider computes over the binary
\* string of the content's bytes, and the call leaves the cache as it was.
C9_DigestEquivalence ==
  \A c \in Calls :
    (Done(c) /\ calls[c].op = "calcMD5Hash")
      => LET digest == HexDecode(BinaryMd5(ContentBytes(calls[c].args.content)).v)
             text == calls[c].result.value.v
         IN /\ calls[c].result.status = "returned"
            /\ Len(digest) = 16
            /\ calls[c].args.outputEncoding = "hex" => HexDecode(text) = digest
            /\ calls[c].args.outputEncoding = "base64" => Base64Decode(text) = digest
            /\ ~calls[c].cacheChanged

\* C9 witness: the digest of a base64 string was returned as base64 while
\* the cache held an entry
C9_Witness ==
  \E c \in Calls :
    /\ Done(c)
    /\ calls[c].op = "calcMD5Hash"
    /\ calls[c].args.content = Str(Base64Encode(<<65, 255>>))
    /\ calls[c].args.outputEncoding = "base64"
    /\ Len(calls[c].result.value.v) = 24
    /\ keyBase64Memo # EmptyMemo

\* C10 as claimed: every encrypt or decrypt call that fails with a
\* validation error (InvalidKeyError or InvalidDataError) leaves the cache
\* exactly as it was before the call.
C10_CacheUntouched ==
  \A c \in Calls :
    (Cipher(c) /\ Done(c) /\ ThrewValidation(c)) => ~calls[c].cacheChanged

\* the call failed the checks made before the key is encoded: the key is no
\* text or, on decrypt, typeof data is not 'object'
FailsEarlyCheck(c) ==
  \/ ~IsString(calls[c].args.key)
  \/ calls[c].op = "decrypt" /\ ~TypeofObject(calls[c].args.data)

\* C10 as amended: a call that fails because its key is not text or, on
\* decrypt, because typeof data is not 'object' leaves the cache as it was
\* and only other calls change it; a decrypt that fails with
\* InvalidDataError because content is not raw bytes and inputEncoding is
\* unset has handed its key to encodeKeyToBase64 before failing.
C10_CacheUntouchedByEarlyChecks ==
  \A c \in Calls :
    (Cipher(c) /\ Done(c))
      => /\ FailsEarlyCheck(c) => (ThrewValidation(c) /\ ~calls[c].cacheChanged)
         /\ (ThrewValidation(c) /\ ~FailsEarlyCheck(c)) =>
              (/\ calls[c].result.kind = "InvalidDataError"
               /\ calls[c].args.key.v \in encoded)

\* C10 witness: a decrypt of a string under a key not yet cached failed with
\* InvalidDataError and the key is still not cached
C10_Witness ==
  \E c \in Calls :
    /\ Done(c)
    /\ calls[c].op = "decrypt"
    /\ calls[c].args.key = Str(KeyK)
    /\ calls[c].args.data = TextA
    /\ calls[c].result = Thrown("InvalidDataError")
    /\ KeyK \notin DOMAIN keyBase64Memo
=============================================================================
